---- MODULE Spec2Model ----
(***************************************************************************)
(* Nest: the config resolver (parse_config), the sweep driver (run_tasks)  *)
(* and the dictionary merge (merge_dict), modelled on a heap of Python     *)
(* objects so that aliasing between the global variables, the parameter    *)
(* file and the resolved configs is visible; and the annotation matcher    *)
(* (is_annotation_matched).  Spec is a process calling run_tasks,          *)
(* CancelSpec one call that Ctrl-C may cancel, UtilSpec one direct call    *)
(* of merge_dict or is_annotation_matched.                                 *)
(***************************************************************************)
EXTENDS Integers, Sequences, FiniteSets, TLC

RECURSIVE Alloc(_, _), AllocAll(_, _, _, _), Deep(_, _), DeepAll(_, _, _)
RECURSIVE ReachFrom(_, _), Entries(_, _), KeysOf(_, _)
RECURSIVE merge_dict(_, _, _, _), MergeKeys(_, _, _, _, _)
RECURSIVE parse_config(_, _, _), ParseList(_, _, _, _), ParseDict(_, _, _, _)
RECURSIVE ParseSub(_, _, _, _), check_all_resolved(_, _)
RECURSIVE is_annotation_matched(_, _, _), TypeCheck(_, _)
RECURSIVE func_annos(_, _), func_annos_unbound(_, _)
RECURSIVE AllMatched(_, _, _, _), AllMatchedSome(_, _, _, _)
RECURSIVE AllPairwise(_, _, _, _), AllItems(_, _, _, _, _), AnyMatched(_, _, _, _)

(* ------------------------------ bounds --------------------------------- *)

\* longest parameter file (number of sweep iterations of one run_tasks call)
MaxParams == 2
\* number of run_tasks calls made in one process
MaxCalls == 2
\* most members of a list, set, tuple or dict the matcher is applied to
MaxLen == 2
\* most positions of a Tuple annotation and most parameters of a Callable
\* annotation
MaxArity == 2

(* ------------------------- values and trees ---------------------------- *)

\* A cell is what a Python variable, a dict slot or a list slot holds: a
\* scalar, or a reference to a heap object.
VNone == [t |-> "none", s |-> "", n |-> 0]
VInt(i) == [t |-> "int", s |-> "", n |-> i]
VStr(x) == [t |-> "str", s |-> x, n |-> 0]
VRef(a) == [t |-> "ref", s |-> "", n |-> a]

\* A tree is a value without identity: what yaml.load reads from a file and
\* what two object graphs are compared by.  c is a sequence of entries [k, v].
TNone == [t |-> "none", s |-> "", n |-> 0, c |-> <<>>]
I(i) == [t |-> "int", s |-> "", n |-> i, c |-> <<>>]
S(x) == [t |-> "str", s |-> x, n |-> 0, c |-> <<>>]
E(k, v) == [k |-> k, v |-> v]
D(c) == [t |-> "dict", s |-> "", n |-> 0, c |-> c]
\* the entries of a list: its items, without keys
Entries(items, i) ==
    IF i > Len(items) THEN <<>>
    ELSE <<[k |-> "", v |-> items[i]]>> \o Entries(items, i + 1)
L(items) == [t |-> "list", s |-> "", n |-> 0, c |-> Entries(items, 1)]
\* the keys of a sequence of entries
KeysOf(c, i) == IF i > Len(c) THEN <<>> ELSE <<c[i].k>> \o KeysOf(c, i + 1)

IsContainer(kind) == kind \in {"dict", "list", "NestModule", "instance"}

\* Building the object graph of a tree on the heap (yaml.load, and the copy
\* half of deepcopy): children first, then the object itself.
AllocAll(h, c, i, vals) ==
    IF i > Len(c) THEN [h |-> h, vals |-> vals]
    ELSE LET r == Alloc(h, c[i].v)
         IN  IF r.v.t = "ref"
             THEN AllocAll(r.h, c, i + 1, Append(vals, r.v))
             ELSE AllocAll(h, c, i + 1, Append(vals, r.v))

Alloc(h, tr) ==
    IF IsContainer(tr.t)
    THEN LET r == AllocAll(h, tr.c, 1, <<>>)
             obj == [kind |-> tr.t,
                     keys |-> KeysOf(tr.c, 1),
                     vals |-> r.vals,
                     name |-> tr.s]
         IN  [h |-> Append(r.h, obj), v |-> VRef(Len(r.h) + 1)]
    ELSE [h |-> h, v |-> [t |-> tr.t, s |-> tr.s, n |-> tr.n]]

\* The value a cell denotes in heap h (the read half of deepcopy).
DeepAll(h, o, i) ==
    IF i > Len(o.vals) THEN <<>>
    ELSE <<[k |-> o.keys[i], v |-> Deep(h, o.vals[i])]>> \o DeepAll(h, o, i + 1)

Deep(h, v) ==
    IF v.t = "ref"
    THEN [t |-> h[v.n].kind, s |-> h[v.n].name, n |-> 0, c |-> DeepAll(h, h[v.n], 1)]
    ELSE [t |-> v.t, s |-> v.s, n |-> v.n, c |-> <<>>]

\* deepcopy(config): a fresh object graph with the same value.  A config read
\* from YAML has no object shared between two places.
deepcopy(h, v) == Alloc(h, Deep(h, v))

\* The addresses reachable from the set A of addresses.
ReachFrom(h, A) ==
    LET B == A \cup UNION {{h[a].vals[i].n :
                                i \in {j \in DOMAIN h[a].vals : h[a].vals[j].t = "ref"}} :
                            a \in A}
    IN  IF B = A THEN A ELSE ReachFrom(h, B)

Reach(h, v) == IF v.t = "ref" THEN ReachFrom(h, {v.n}) ELSE {}

(* ------------------------- Python dict operations ---------------------- *)

IsDict(h, v) == v.t = "ref" /\ h[v.n].kind = "dict"
IsList(h, v) == v.t = "ref" /\ h[v.n].kind = "list"

\* key in d
HasKey(o, k) == \E i \in DOMAIN o.keys : o.keys[i] = k
KeyIdx(o, k) == CHOOSE i \in DOMAIN o.keys : o.keys[i] = k
\* d[key]
GetKey(o, k) == o.vals[KeyIdx(o, k)]
\* d[key] = v: an existing key keeps its place, a new key goes last
SetKey(o, k, v) ==
    IF HasKey(o, k)
    THEN [o EXCEPT !.vals[KeyIdx(o, k)] = v]
    ELSE [o EXCEPT !.keys = Append(@, k), !.vals = Append(@, v)]
\* d.pop(key, None): the dict without the key
DelKey(o, k) ==
    IF HasKey(o, k)
    THEN LET j == KeyIdx(o, k)
         IN  [o EXCEPT !.keys = SubSeq(@, 1, j - 1) \o SubSeq(@, j + 1, Len(@)),
                       !.vals = SubSeq(@, 1, j - 1) \o SubSeq(@, j + 1, Len(@))]
    ELSE o

\* Python truthiness of a cell (if nest_module_name:)
Truthy(h, v) ==
    CASE v.t = "none" -> FALSE
      [] v.t = "int" -> v.n # 0
      [] v.t = "str" -> v.s # ""
      [] v.t = "ref" -> (h[v.n].kind \in {"dict", "list"} => Len(h[v.n].vals) > 0)

(* ------------------------------ merge_dict ----------------------------- *)

\* MergeKeys with "src[key] = diff[key]" left out for a key src already has:
\* the value src holds is kept.
MergeKeysKeepSrc(h, src, diff, union, i) ==
    IF i > Len(h[diff].keys) THEN h
    ELSE LET key == h[diff].keys[i]
             dv == h[diff].vals[i]
             h1 == IF HasKey(h[src], key)
                   THEN IF IsDict(h, GetKey(h[src], key)) /\ IsDict(h, dv)
                        THEN merge_dict(h, GetKey(h[src], key).n, dv.n, TRUE)
                        ELSE h
                   ELSE IF union
                        THEN [h EXCEPT ![src] = SetKey(@, key, dv)]
                        ELSE h
         IN  MergeKeys(h1, src, diff, union, i + 1)

\* MergeKeys without the recursion: a key both sides hold takes diff's value
\* whatever the two values are.
MergeKeysReplace(h, src, diff, union, i) ==
    IF i > Len(h[diff].keys) THEN h
    ELSE LET key == h[diff].keys[i]
             dv == h[diff].vals[i]
             h1 == IF HasKey(h[src], key) \/ union
                   THEN [h EXCEPT ![src] = SetKey(@, key, dv)]
                   ELSE h
         IN  MergeKeys(h1, src, diff, union, i + 1)

\* One round of "for key in diff" at position i.  The recursive call of the
\* source passes _path+[str(key)] in the position of union: a non-empty list,
\* which Python takes as true.
MergeKeys(h, src, diff, union, i) ==
    IF i > Len(h[diff].keys) THEN h
    ELSE LET key == h[diff].keys[i]
             dv == h[diff].vals[i]
             h1 == IF HasKey(h[src], key)
                   THEN IF IsDict(h, GetKey(h[src], key)) /\ IsDict(h, dv)
                        THEN merge_dict(h, GetKey(h[src], key).n, dv.n, TRUE)
                        ELSE [h EXCEPT ![src] = SetKey(@, key, dv)]
                   ELSE IF union
                        THEN [h EXCEPT ![src] = SetKey(@, key, dv)]
                        ELSE h
         IN  MergeKeys(h1, src, diff, union, i + 1)

\* merge_dict(src, diff, union): src is modified in place; the heap after.
merge_dict(h, src, diff, union) == MergeKeys(h, src, diff, union, 1)

(* ------------------------- is_annotation_matched ----------------------- *)

\* An annotation object.  k says what the object is: "None" (the object
\* None), "class" (a class, named by ty), or the name of a construct of the
\* typing module; a is its __args__ and bare says that it was not subscripted.
Anno(k, ty, a, bare) == [k |-> k, ty |-> ty, a |-> a, bare |-> bare]
NoneAnno == Anno("None", "", <<>>, FALSE)
Class(ty) == Anno("class", ty, <<>>, FALSE)
AnyType == Anno("Any", "", <<>>, FALSE)
Bare(k) == Anno(k, "", <<>>, TRUE)
\* inspect.Parameter.empty and inspect.Signature.empty: the class _empty
Empty == Class("_empty")

\* Subscripting a typing construct: typing replaces an argument None by
\* type(None).  For Callable a holds the parameters followed by the return.
TypeCheck(a, i) ==
    IF i > Len(a) THEN <<>>
    ELSE <<IF a[i] = NoneAnno THEN Class("NoneType") ELSE a[i]>> \o TypeCheck(a, i + 1)

Generic(k, a) == Anno(k, "", TypeCheck(a, 1), FALSE)

\* A Python value.  t is the name of its type; items holds the members of a
\* list, set or tuple and the (key, value) pairs of a dict; sig is the
\* signature of a callable (inspect.signature(var), or var.sig of a
\* NestModule) and bound the keys of var.params of a NestModule.
NoSig == [params |-> <<>>, ret |-> Empty]
Val(t, n, items, sig, bound) ==
    [t |-> t, n |-> n, items |-> items, sig |-> sig, bound |-> bound]
Atom(t, n) == Val(t, n, <<>>, NoSig, {})
PyNone == Atom("NoneType", 0)
Container(t, items) == Val(t, 0, items, NoSig, {})
Param(name, annotation, default) ==
    [name |-> name, annotation |-> annotation, default |-> default]
Function(params, ret) ==
    Val("function", 0, <<>>, [params |-> params, ret |-> ret], {})
\* a Deferred Module Instance: a NestModule with its sig and its params
NestModule(params, ret, bound) ==
    Val("NestModule", 0, <<>>, [params |-> params, ret |-> ret], bound)

\* issubclass(var_type, cls) over the classes of the values above
issubclass(t, cls) == cls = "object" \/ t = cls \/ (t = "bool" /\ cls = "int")

\* callable(var)
callable(var) == var.t \in {"function", "NestModule"}

\* The releases of the typing module the code runs on (setup.py asks for
\* Python 3.5 or later).  They differ in two things the matcher reads: the
\* __args__ of a construct that was not subscripted (None in 3.6, no such
\* attribute in 3.11) and the text of a Union of one type and NoneType
\* ('typing.Union[...]' in 3.6, 'typing.Optional[...]' in 3.11).
Typings == {"3.6", "3.11"}

\* Line 178: str(annotation).split('[')[0]
anno_str(annotation, typing) ==
    IF annotation.k = "None" THEN "None"
    ELSE IF annotation.k = "class" THEN "<class '" \o annotation.ty \o "'>"
    ELSE IF /\ annotation.k = "Union"
            /\ typing = "3.11"
            /\ Len(annotation.a) = 2
            /\ \E i \in 1..2 : annotation.a[i] = Class("NoneType")
         THEN "typing.Optional"
         ELSE "typing." \o annotation.k

startswith(s, prefix) ==
    /\ Len(s) >= Len(prefix)
    /\ SubSeq(s, 1, Len(prefix)) = prefix

\* what a call returns or raises: "True", "False", or the name of the
\* exception
Bool(b) == IF b THEN "True" ELSE "False"

\* Lines 247-256: the annotations of the parameters that are compared.
func_annos_unbound(var, i) ==
    IF i > Len(var.sig.params) THEN <<>>
    ELSE <<var.sig.params[i].annotation>> \o func_annos_unbound(var, i + 1)

func_annos(var, i) ==
    IF i > Len(var.sig.params) THEN <<>>
    ELSE LET p == var.sig.params[i]
         IN  (IF var.t = "NestModule" /\ (p.name \in var.bound \/ p.default)
              THEN <<>> ELSE <<p.annotation>>) \o func_annos(var, i + 1)

\* Lines 259-262: the test of the return annotation.
return_matched_unset(sig, ret) ==
    \/ ret = AnyType
    \/ sig.ret = ret
    \/ (sig.ret = Empty /\ ret = Class("NoneType"))

return_matched(sig, ret) ==
    \/ ret = AnyType
    \/ ret = Class("object")
    \/ sig.ret = ret
    \/ (sig.ret = NoneAnno /\ ret = Class("NoneType"))

\* all(map(lambda x: is_annotation_matched(x, anno), var)) with a container
\* without members taken as no match.
AllMatchedSome(items, anno, i, typing) ==
    IF i > Len(items) THEN Bool(i > 1)
    ELSE LET r == is_annotation_matched(items[i], anno, typing)
         IN  IF r = "True" THEN AllMatchedSome(items, anno, i + 1, typing) ELSE r

\* all(map(lambda x: is_annotation_matched(x, anno), var)): map is lazy and
\* all stops at the first member that is not true; an exception ends it.
AllMatched(items, anno, i, typing) ==
    IF i > Len(items) THEN "True"
    ELSE LET r == is_annotation_matched(items[i], anno, typing)
         IN  IF r = "True" THEN AllMatched(items, anno, i + 1, typing) ELSE r

\* Line 220: all(map(lambda x, y: is_annotation_matched(x, y), var, sub_annotation))
AllPairwise(items, annos, i, typing) ==
    IF i > Len(items) \/ i > Len(annos) THEN "True"
    ELSE LET r == is_annotation_matched(items[i], annos[i], typing)
         IN  IF r = "True" THEN AllPairwise(items, annos, i + 1, typing) ELSE r

\* Lines 230-232: all(map(lambda x: matched(x[0], key_anno) and matched(x[1], val_anno), var.items()))
AllItems(items, key_anno, val_anno, i, typing) ==
    IF i > Len(items) THEN "True"
    ELSE LET k == is_annotation_matched(items[i][1], key_anno, typing)
             r == IF k = "True"
                  THEN is_annotation_matched(items[i][2], val_anno, typing)
                  ELSE k
         IN  IF r = "True" THEN AllItems(items, key_anno, val_anno, i + 1, typing) ELSE r

\* Line 240: any(map(lambda y: is_annotation_matched(var, y), sub_annotation))
AnyMatched(var, annos, i, typing) ==
    IF i > Len(annos) THEN "False"
    ELSE LET r == is_annotation_matched(var, annos[i], typing)
         IN  IF r = "False" THEN AnyMatched(var, annos, i + 1, typing) ELSE r

\* Lines 243-266: the Callable branch, sub_annotation being there.
MatchCallable(var, annotation) ==
    IF ~callable(var) THEN "False"
    ELSE IF annotation.bare THEN "True"
    ELSE LET sub_annotation == annotation.a
             annos == func_annos(var, 1)
         IN  IF Len(annos) = Len(sub_annotation) - 1
             THEN Bool(/\ \A i \in DOMAIN annos : annos[i] = sub_annotation[i]
                       /\ return_matched(var.sig, sub_annotation[Len(sub_annotation)]))
             ELSE "False"

\* Lines 163-268.  Reading __args__ of a construct that was not subscripted
\* raises AttributeError where typing has no such attribute.
is_annotation_matched(var, annotation, typing) ==
    LET var_type == var.t
        s == anno_str(annotation, typing)
        anno_type == SubSeq(s, 8, Len(s))
        sub_annotation == annotation.a
        no_args == annotation.bare /\ typing = "3.11"
    IN  IF var_type = "NoneType" /\ annotation.k = "None" THEN "True"
        ELSE IF annotation.k = "class" THEN Bool(issubclass(var_type, annotation.ty))
        ELSE IF ~startswith(s, "typing.") THEN "NotImplementedError"
        ELSE IF anno_type = "Any" THEN "True"
        ELSE IF anno_type \in {"List", "Set"}
             THEN IF no_args THEN "AttributeError"
                  ELSE IF var_type = (IF anno_type = "List" THEN "list" ELSE "set")
                       THEN IF annotation.bare THEN "True"
                            ELSE AllMatched(var.items, sub_annotation[1], 1, typing)
                       ELSE "False"
        ELSE IF anno_type = "Iterable"
             THEN Bool(var_type \in {"list", "set", "tuple", "dict", "str", "list_iterator"})
        ELSE IF anno_type = "Iterator"
             THEN Bool(var_type = "list_iterator")
        ELSE IF anno_type = "Tuple"
             THEN IF no_args THEN "AttributeError"
                  ELSE IF var_type = "tuple"
                       THEN IF annotation.bare THEN "True"
                            ELSE IF Len(sub_annotation) # Len(var.items) THEN "False"
                            ELSE AllPairwise(var.items, sub_annotation, 1, typing)
                       ELSE "False"
        ELSE IF anno_type = "Dict"
             THEN IF no_args THEN "AttributeError"
                  ELSE IF var_type = "dict"
                       THEN IF annotation.bare THEN "True"
                            ELSE AllItems(var.items, sub_annotation[1], sub_annotation[2],
                                          1, typing)
                       ELSE "False"
        ELSE IF anno_type = "Union"
             THEN IF no_args THEN "AttributeError"
                  ELSE IF annotation.bare THEN "False"
                  ELSE AnyMatched(var, sub_annotation, 1, typing)
        ELSE IF anno_type = "Callable"
             THEN IF no_args THEN "AttributeError"
                  ELSE MatchCallable(var, annotation)
        ELSE "NotImplementedError"

(* ------------------------ settings and registry ------------------------ *)

\* settings['VARIABLE_PREFIX']
VARIABLE_PREFIX == "@"

\* The identifiers the module registry knows (module_manager[...]).
Registered == {"mod"}

(* ------------------------------ parse_config --------------------------- *)

\* What one resolution pass records: one entry per container walked, per
\* variable looked up, per _var mapping merged and per module constructed.
Ev0 == [ev |-> "", name |-> "", site |-> "", node |-> 0, pos |-> 0,
        gHas |-> FALSE, eHas |-> FALSE, gVal |-> VNone, eVal |-> VNone,
        val |-> VNone, tree |-> TNone, reach |-> {}, delay |-> FALSE,
        depth |-> 0]

\* The state threaded through a pass: the heap, the addresses of global_vars
\* and env_vars, PARSER_STRICT, the pending exception and the return value.
Pass0(h, g, e, strict) ==
    [h |-> h, g |-> g, e |-> e, strict |-> strict, log |-> <<>>,
     merges |-> <<>>, err |-> "", earg |-> "", ret |-> VNone, fuel |-> -1]

\* KeyboardInterrupt is raised in the main thread between two steps of the
\* pass: st.fuel is the number of steps the pass makes before it is raised
\* (negative: it is not raised during the pass).
Interrupted(st) == [st EXCEPT !.err = "KeyboardInterrupt", !.earg = ""]
Spend(st) == IF st.fuel > 0 THEN [st EXCEPT !.fuel = @ - 1] ELSE st

is_variable(v) ==
    /\ v.t = "str"
    /\ Len(v.s) >= Len(VARIABLE_PREFIX)
    /\ SubSeq(v.s, 1, Len(VARIABLE_PREFIX)) = VARIABLE_PREFIX

\* resolve_variable with the two tiers looked up in the other order.
resolve_variable_env_first(h, g, e, name) ==
    IF HasKey(h[e], Tail(name))
    THEN [ok |-> TRUE, v |-> GetKey(h[e], Tail(name))]
    ELSE IF HasKey(h[g], Tail(name))
         THEN [ok |-> TRUE, v |-> GetKey(h[g], Tail(name))]
         ELSE [ok |-> FALSE, v |-> VNone]

\* resolve_variable returning the reference itself where the source raises.
resolve_variable_lenient(h, g, e, name) ==
    IF HasKey(h[g], Tail(name))
    THEN [ok |-> TRUE, v |-> GetKey(h[g], Tail(name))]
    ELSE IF HasKey(h[e], Tail(name))
         THEN [ok |-> TRUE, v |-> GetKey(h[e], Tail(name))]
         ELSE [ok |-> TRUE, v |-> VStr(name)]

\* resolve_variable(name): the global tier first, then the environment;
\* ok is false where the source raises TypeError.
resolve_variable(h, g, e, name) ==
    IF HasKey(h[g], Tail(name))
    THEN [ok |-> TRUE, v |-> GetKey(h[g], Tail(name))]
    ELSE IF HasKey(h[e], Tail(name))
         THEN [ok |-> TRUE, v |-> GetKey(h[e], Tail(name))]
         ELSE [ok |-> FALSE, v |-> VNone]

\* What is recorded of a lookup: what the two tiers held for the key when it
\* was made (st), and what the slot holds afterwards (h1).
LookupEvent(st, a, i, site, depth, ok, h1) ==
    LET name == st.h[a].vals[i].s
        key == SubSeq(name, Len(VARIABLE_PREFIX) + 1, Len(name))
        gHas == HasKey(st.h[st.g], key)
        eHas == HasKey(st.h[st.e], key)
    IN  [Ev0 EXCEPT !.ev = "lookup", !.name = name, !.site = site,
                    !.node = a, !.pos = i, !.depth = depth,
                    !.gHas = gHas, !.eHas = eHas,
                    !.gVal = IF gHas THEN GetKey(st.h[st.g], key) ELSE VNone,
                    !.eVal = IF eHas THEN GetKey(st.h[st.e], key) ELSE VNone,
                    !.val = IF ok THEN h1[a].vals[i] ELSE VNone,
                    !.tree = IF ok THEN Deep(h1, h1[a].vals[i]) ELSE TNone,
                    !.reach = IF ok THEN Reach(h1, h1[a].vals[i]) ELSE {}]

\* SubstituteAt followed by a resolution of the value that was substituted.
SubstituteAndResolveAt(st, a, i, site, depth) ==
    LET name == st.h[a].vals[i].s
        r == resolve_variable(st.h, st.g, st.e, name)
        h1 == IF r.ok THEN [st.h EXCEPT ![a].vals[i] = r.v] ELSE st.h
        s1 == [st EXCEPT !.h = h1,
                         !.log = Append(@, LookupEvent(st, a, i, site, depth, r.ok, h1)),
                         !.err = IF r.ok THEN "" ELSE "TypeError",
                         !.earg = IF r.ok THEN "" ELSE name]
        s2 == parse_config(s1, r.v, depth + 1)
    IN  IF ~r.ok THEN s1
        ELSE IF s2.err # "" THEN s2
             ELSE [s2 EXCEPT !.h[a].vals[i] = s2.ret]

\* container[i] = resolve_variable(container[i]); TypeError is pending where
\* resolve_variable raised.
SubstituteAt(st, a, i, site, depth) ==
    LET name == st.h[a].vals[i].s
        r == resolve_variable(st.h, st.g, st.e, name)
        h1 == IF r.ok THEN [st.h EXCEPT ![a].vals[i] = r.v] ELSE st.h
    IN  IF st.fuel = 0 THEN Interrupted(st)
        ELSE [Spend(st) EXCEPT
                   !.h = h1,
                   !.log = Append(@, LookupEvent(st, a, i, site, depth, r.ok, h1)),
                   !.err = IF r.ok THEN "" ELSE "TypeError",
                   !.earg = IF r.ok THEN "" ELSE name]

\* The walk enters the container at address a.
Visit(st, a, depth) ==
    IF st.fuel = 0 THEN Interrupted(st)
    ELSE [Spend(st) EXCEPT !.log = Append(@, [Ev0 EXCEPT !.ev = "visit", !.node = a,
                                                         !.depth = depth])]

\* Declare without the merge: the _var mapping is resolved and global_vars is
\* left as it was.
DeclareNothing(st, v, depth) ==
    IF IsDict(st.h, v)
    THEN [st EXCEPT !.log = Append(@, [Ev0 EXCEPT !.ev = "declare", !.val = v,
                                                  !.node = v.n, !.depth = depth,
                                                  !.tree = Deep(st.h, v)]),
                    !.merges = Append(@, [src |-> Deep(st.h, VRef(st.g)),
                                          diff |-> Deep(st.h, v),
                                          out |-> Deep(st.h, VRef(st.g))])]
    ELSE [st EXCEPT !.err = "TypeError", !.earg = "_var"]

\* U.merge_dict(global_vars, config['_var'], union=True)
Declare(st, v, depth) ==
    IF st.fuel = 0 THEN Interrupted(st)
    ELSE IF IsDict(st.h, v)
    THEN LET h1 == merge_dict(st.h, st.g, v.n, TRUE)
         IN  [Spend(st) EXCEPT !.h = h1,
                        !.log = Append(@, [Ev0 EXCEPT !.ev = "declare", !.val = v,
                                                      !.node = v.n, !.depth = depth,
                                                      !.tree = Deep(st.h, v)]),
                        !.merges = Append(@, [src |-> Deep(st.h, VRef(st.g)),
                                              diff |-> Deep(st.h, v),
                                              out |-> Deep(h1, VRef(st.g))])]
    ELSE [st EXCEPT !.err = "TypeError", !.earg = "_var"]

\* The module object a registered module returns when it is called with the
\* keyword arguments held by the dict at address a: with delay_resolve a
\* deferred NestModule carrying the bound arguments, without it the
\* constructed instance.
NestModuleCall(h, name, a, delay_resolve) ==
    [h |-> Append(h, [kind |-> IF delay_resolve THEN "NestModule" ELSE "instance",
                      keys |-> h[a].keys, vals |-> h[a].vals, name |-> name]),
     v |-> VRef(Len(h) + 1)]

\* Lines 64-72: pop '_name'; a truthy name is looked up and the module called,
\* under PARSER_STRICT as it is, otherwise with delay_resolve=True.
Instantiate(st, a, depth) ==
    LET o == st.h[a]
        nest_module_name == IF HasKey(o, "_name") THEN GetKey(o, "_name") ELSE VNone
        h1 == [st.h EXCEPT ![a] = DelKey(@, "_name")]
        r == NestModuleCall(h1, nest_module_name.s, a, ~st.strict)
    IN  IF Truthy(st.h, nest_module_name)
        THEN IF st.fuel = 0 THEN Interrupted(st)
             ELSE IF nest_module_name.s \in Registered
             THEN [Spend(st) EXCEPT !.h = r.h, !.ret = r.v,
                             !.log = Append(@, [Ev0 EXCEPT !.ev = "construct",
                                                           !.name = nest_module_name.s,
                                                           !.node = a, !.depth = depth,
                                                           !.delay = ~st.strict,
                                                           !.val = r.v,
                                                           !.tree = Deep(h1, VRef(a))])]
             ELSE [st EXCEPT !.h = h1, !.err = "ModuleNotFound",
                             !.earg = nest_module_name.s]
        ELSE [st EXCEPT !.h = h1, !.ret = VRef(a)]

\* Lines 43-47: for idx, val in enumerate(config).
ParseList(st, a, i, depth) ==
    IF st.err # "" \/ i > Len(st.h[a].vals) THEN st
    ELSE LET val == st.h[a].vals[i]
         IN  IF is_variable(val)
             THEN ParseList(SubstituteAt(st, a, i, "sequence element", depth),
                            a, i + 1, depth)
             ELSE IF IsDict(st.h, val)
                  THEN LET s1 == parse_config(st, val, depth + 1)
                       IN  IF s1.err # "" THEN s1
                           ELSE ParseList([s1 EXCEPT !.h[a].vals[i] = s1.ret],
                                          a, i + 1, depth)
                  ELSE ParseList(st, a, i + 1, depth)

\* Lines 53-57: for sub_idx, sub_val in enumerate(val), val a list held by a
\* mapping.
ParseSub(st, a, i, depth) ==
    IF st.err # "" \/ i > Len(st.h[a].vals) THEN st
    ELSE LET sub_val == st.h[a].vals[i]
         IN  IF is_variable(sub_val)
             THEN ParseSub(SubstituteAt(st, a, i, "element of a mapping's sequence",
                                        depth),
                           a, i + 1, depth)
             ELSE IF IsDict(st.h, sub_val)
                  THEN LET s1 == parse_config(st, sub_val, depth + 1)
                       IN  IF s1.err # "" THEN s1
                           ELSE ParseSub([s1 EXCEPT !.h[a].vals[i] = s1.ret],
                                         a, i + 1, depth)
                  ELSE ParseSub(st, a, i + 1, depth)

\* Lines 49-62: for key, val in config.items().
ParseDict(st, a, i, depth) ==
    IF st.err # "" \/ i > Len(st.h[a].vals) THEN st
    ELSE LET key == st.h[a].keys[i]
             val == st.h[a].vals[i]
         IN  IF is_variable(val)
             THEN ParseDict(SubstituteAt(st, a, i, "mapping value", depth),
                            a, i + 1, depth)
             ELSE IF IsList(st.h, val)
                  THEN ParseDict(ParseSub(Visit(st, val.n, depth), val.n, 1, depth),
                                 a, i + 1, depth)
                  ELSE IF IsDict(st.h, val)
                       THEN LET s1 == parse_config(st, val, depth + 1)
                                s2 == [s1 EXCEPT !.h[a].vals[i] = s1.ret]
                            IN  IF s1.err # "" THEN s1
                                ELSE ParseDict(IF key = "_var"
                                               THEN Declare(s2, s2.h[a].vals[i], depth)
                                               ELSE s2,
                                               a, i + 1, depth)
                       ELSE ParseDict(st, a, i + 1, depth)

\* parse_config(config, env_vars, global_vars): resolves the object graph of
\* config in place and returns it, or the module built from it.
parse_config(st, config, depth) ==
    IF IsList(st.h, config)
    THEN LET s1 == ParseList(Visit(st, config.n, depth), config.n, 1, depth)
         IN  IF s1.err # "" THEN s1 ELSE [s1 EXCEPT !.ret = config]
    ELSE IF IsDict(st.h, config)
         THEN LET s1 == ParseDict(Visit(st, config.n, depth), config.n, 1, depth)
              IN  IF s1.err # "" THEN s1 ELSE Instantiate(s1, config.n, depth)
         ELSE [st EXCEPT !.ret = config]

\* check_all_resolved that looks at the value it is given and not below it.
check_top_resolved(h, v) == v.t = "ref" /\ h[v.n].kind = "NestModule"

\* check_all_resolved(resolved_config): TRUE where the source raises
\* RuntimeError, FALSE where it returns.
check_all_resolved(h, v) ==
    IF IsList(h, v) \/ IsDict(h, v)
    THEN \E i \in DOMAIN h[v.n].vals : check_all_resolved(h, h[v.n].vals[i])
    ELSE v.t = "ref" /\ h[v.n].kind = "NestModule"

(* ------------------------------- inputs -------------------------------- *)

\* The config files run_tasks is called on.
Docs ==
    << \* a variable at each kind of site
       D(<<E("x", S("@lr")),
           E("l", L(<<S("@lr"), D(<<E("y", S("@lr"))>>), I(3)>>))>>),
       \* a _var mapping, references, a second _var mapping on the same keys
       D(<<E("_var", D(<<E("a", I(1)),
                         E("o", D(<<E("p", I(1)), E("n", D(<<E("r", I(1))>>))>>))>>)),
           E("x", S("@a")),
           E("y", D(<<E("_var", D(<<E("a", I(2)),
                                    E("o", D(<<E("q", I(2)),
                                               E("n", D(<<E("s", I(2))>>))>>))>>))>>)),
           E("z", S("@a")),
           E("w", S("@o"))>>),
       \* a reference before and after the declaration
       D(<<E("x", S("@a")), E("_var", D(<<E("a", I(1))>>)), E("z", S("@a"))>>),
       \* a module at the top, with a module as an argument
       D(<<E("_name", S("mod")), E("arg", S("@lr")),
           E("sub", D(<<E("_name", S("mod"))>>))>>),
       \* a module declared in _var and referenced twice
       D(<<E("_var", D(<<E("m", D(<<E("_name", S("mod")), E("k", I(1))>>))>>)),
           E("x", S("@m")), E("l", L(<<S("@m")>>))>>),
       \* a sequence at the top, and a sequence directly in a sequence
       L(<<S("@lr"), D(<<E("_name", S("mod"))>>),
           L(<<S("@lr"), D(<<E("_name", S("mod"))>>)>>)>>),
       \* a variable the parameter file binds to a mapping
       D(<<E("x", S("@opt")), E("l", L(<<S("@opt")>>))>>),
       \* a variable nothing binds
       D(<<E("x", S("@missing"))>>),
       \* a module the registry does not know
       D(<<E("_name", S("nomod"))>>),
       \* a module below a mapping in a sequence
       D(<<E("x", I(1)),
           E("l", L(<<I(1), D(<<E("y", D(<<E("_name", S("mod")), E("k", I(2))>>))>>)>>))>>),
       \* a module whose node declares variables
       D(<<E("_name", S("mod")), E("_var", D(<<E("a", I(1))>>)), E("arg", S("@lr"))>>)
    >>

\* The mappings a parameter file is made of.
ParamMaps ==
    << D(<<E("lr", I(1)), E("a", I(9))>>),
       D(<<E("lr", I(2)), E("opt", I(5))>>),
       D(<<E("opt", D(<<E("a", I(1))>>))>>),
       D(<<E("opt", D(<<E("b", I(2)), E("_name", S("mod"))>>))>>) >>

\* No parameter file (param_file is None).
NoFile == TNone

\* What yaml.load reads from a parameter file: a list of up to MaxParams
\* mappings, or one mapping that is not in a list.
ParamFiles ==
    {L([i \in DOMAIN f |-> ParamMaps[f[i]]]) :
        f \in UNION {[1..n -> 1..Len(ParamMaps)] : n \in 0..MaxParams}}
    \cup {ParamMaps[1]}
    \cup {L(<<ParamMaps[1], I(7)>>)}

\* os.environ of the process.
Environs ==
    {D(<<>>), D(<<E("lr", S("env lr")), E("a", S("@lr"))>>)}

\* The sequences over S of length up to n.
SeqsUpTo(Xs, n) == UNION {[1..k -> Xs] : k \in 0..n}

\* The values is_annotation_matched is applied to.
Members == {Atom("int", 1), Atom("str", 0), PyNone}

Atoms == Members \cup {Atom("bool", 1), Atom("list_iterator", 0)}

Flat ==
    {Container(t, items) : t \in {"list", "set", "tuple"},
                           items \in SeqsUpTo(Members, MaxLen)}
    \cup {Container("dict", items) :
              items \in {f \in SeqsUpTo({Atom("int", 1), Atom("str", 0)} \X Members, MaxLen) :
                            \A i, j \in DOMAIN f : i # j => f[i][1] # f[j][1]}}

Nested ==
    {Container("list", <<Container("list", <<Atom("int", 1)>>)>>),
     Container("list", <<Container("list", <<Atom("int", 1)>>),
                         Container("list", <<Atom("str", 0)>>)>>),
     Container("list", <<Container("tuple", <<Atom("int", 1), Atom("str", 0)>>)>>),
     Container("dict", << <<Atom("str", 0), Container("list", <<Atom("int", 1)>>)>> >>),
     Container("tuple", <<Container("list", <<Atom("int", 1)>>),
                          Container("dict", << <<Atom("str", 0), Atom("int", 1)>> >>)>>)}

\* the signatures of the callables
Sigs ==
    {[params |-> <<>>, ret |-> Empty],
     [params |-> <<Param("x", Class("int"), FALSE)>>, ret |-> Empty],
     [params |-> <<Param("x", Class("int"), FALSE)>>, ret |-> NoneAnno],
     [params |-> <<Param("x", Class("int"), FALSE)>>, ret |-> Class("int")],
     [params |-> <<Param("x", Class("int"), FALSE), Param("y", Class("str"), TRUE)>>,
      ret |-> Class("int")],
     [params |-> <<Param("x", Class("int"), FALSE), Param("y", Class("str"), FALSE)>>,
      ret |-> Class("str")],
     [params |-> <<Param("x", Empty, FALSE)>>, ret |-> Empty]}

Callables ==
    {Function(sig.params, sig.ret) : sig \in Sigs}
    \cup UNION {{NestModule(sig.params, sig.ret, bound) :
                    bound \in SUBSET {sig.params[i].name : i \in DOMAIN sig.params}} :
                sig \in Sigs}

Values == Atoms \cup Flat \cup Nested \cup Callables

\* The annotations is_annotation_matched is applied to.
Base == {AnyType, Class("int"), Class("str"), NoneAnno}

Subscripted ==
    {Generic(k, <<b>>) : k \in {"List", "Set"}, b \in Base}
    \cup {Generic(k, <<Class("int")>>) : k \in {"Iterable", "Iterator"}}
    \cup {Generic("Tuple", a) : a \in SeqsUpTo(Base, MaxArity) \ {<<>>}}
    \cup {Generic("Dict", <<k, v>>) : k \in {Class("int"), Class("str")}, v \in Base}
    \cup {Generic("Union", <<ab[1], ab[2]>>) :
              ab \in {x \in (Base \ {AnyType}) \X (Base \ {AnyType}) : x[1] # x[2]}}
    \cup {Generic("Callable", ps \o <<r>>) :
              ps \in SeqsUpTo({Class("int"), Class("str")}, MaxArity),
              r \in Base \cup {Class("object")}}

Deeper ==
    {Generic("List", <<Generic("List", <<Class("int")>>)>>),
     Generic("List", <<Generic("Union", <<Class("int"), Class("str")>>)>>),
     Generic("List", <<Generic("Tuple", <<Class("int"), Class("str")>>)>>),
     Generic("Union", <<Generic("List", <<Class("int")>>), Class("int")>>),
     Generic("Dict", <<Class("str"), Generic("List", <<Class("int")>>)>>),
     Generic("Tuple", <<Generic("List", <<Class("int")>>),
                        Generic("Dict", <<Class("str"), Class("int")>>)>>),
     Generic("List", <<Generic("Union", <<Class("int"), NoneAnno>>)>>)}

\* annotations outside the set the matcher supports
Unsupported ==
    {Generic("Type", <<Class("int")>>),
     Generic("List", <<Generic("Type", <<Class("int")>>)>>)}

Annotations ==
    Base \cup {Class("bool"), Class("object"), Class("NoneType")}
    \cup {Bare(k) : k \in {"List", "Set", "Tuple", "Dict", "Union", "Callable",
                          "Iterable", "Iterator"}}
    \cup Subscripted \cup Deeper \cup Unsupported

\* The mappings merge_dict is applied to: what a key can hold, and the
\* mappings over the keys a and o.
Held ==
    {I(1), I(2), D(<<>>), D(<<E("p", I(1))>>), D(<<E("q", I(2))>>),
     D(<<E("n", D(<<E("r", I(1))>>))>>), D(<<E("n", D(<<E("s", I(2))>>))>>)}

Mappings ==
    {D(<<>>)} \cup {D(<<E(k, v)>>) : k \in {"a", "o"}, v \in Held}
    \cup {D(<<E("a", v), E("o", w)>>) : v \in {I(1), D(<<E("p", I(1))>>)}, w \in Held}

(* -------------------------------- state -------------------------------- *)

VARIABLES
    heap,        \* the Python objects of the process
    strict,      \* settings['PARSER_STRICT']
    environ,     \* os.environ
    pc,          \* where run_tasks stands
    calls,       \* run_tasks calls made so far
    doc,         \* the config file of the current call, as read
    params,      \* the parameter file of the current call, as read
    config,      \* run_tasks: config
    env_vars,    \* run_tasks: env_vars
    global_vars, \* run_tasks: global_vars (VNone without a parameter file)
    param_list,  \* run_tasks: param_list
    idx,         \* sweep iterations started
    passes,      \* resolution passes started in the current call
    startG,      \* the global tier as the latest pass found it
    log,         \* what the latest pass recorded
    merges,      \* the merge_dict calls of the latest iteration
    parsed,      \* parse_config of the latest pass returned
    graphs,      \* resolved_config of every pass that returned, in order
    produced,    \* the value of each of them when it was returned
    err,         \* the exception run_tasks raised
    report,      \* what run_tasks logged last
    var,         \* is_annotation_matched: var
    annotation,  \* is_annotation_matched: annotation
    typing,      \* the release of typing the call runs on
    matched,     \* what is_annotation_matched returned or raised
    merge_src,   \* merge_dict: src as it was passed
    merge_diff,  \* merge_dict: diff
    merge_union, \* merge_dict: union
    merged       \* merge_dict: src as the call left it

\* the variables of a direct call of a function of utils.py
utils == <<var, annotation, typing, matched, merge_src, merge_diff, merge_union,
           merged>>

vars == <<heap, strict, environ, pc, calls, doc, params, config, env_vars,
          global_vars, param_list, idx, passes, startG, log, merges, parsed,
          graphs, produced, err, report, utils>>

\* The dict parse_config's global_vars defaults to: one object, created when
\* the function is defined.
DefaultGlobals == 1

NoErr == [type |-> "", arg |-> ""]

\* No function of utils.py is called directly.
NoMatch == var = PyNone /\ annotation = Empty /\ typing = ""
NoMerge == merge_src = TNone /\ merge_diff = TNone /\ merge_union = FALSE
NoCall == NoMatch /\ NoMerge

Init ==
    /\ heap = <<[kind |-> "dict", keys |-> <<>>, vals |-> <<>>, name |-> ""]>>
    /\ strict \in BOOLEAN
    /\ environ \in Environs
    /\ pc = "idle"
    /\ calls = 0
    /\ doc = TNone
    /\ params = NoFile
    /\ config = VNone
    /\ env_vars = VNone
    /\ global_vars = VNone
    /\ param_list = <<>>
    /\ idx = 0
    /\ passes = 0
    /\ startG = TNone
    /\ log = <<>>
    /\ merges = <<>>
    /\ parsed = FALSE
    /\ graphs = <<>>
    /\ produced = <<>>
    /\ err = NoErr
    /\ report = ""
    /\ NoCall
    /\ matched = ""
    /\ merged = TNone

\* The objects that outlive a run_tasks call: those the default global_vars
\* dict reaches.  Addresses are renumbered in order.
Rank(R, a) == Cardinality({b \in R : b <= a})

\* the objects of R from the i-th on, in order of address, renumbered
RECURSIVE Moved(_, _, _)
Moved(h, R, i) ==
    IF i > Cardinality(R) THEN <<>>
    ELSE LET a == CHOOSE b \in R : Rank(R, b) = i
             o == h[a]
             cells == {j \in DOMAIN o.vals : o.vals[j].t = "ref"}
         IN  <<[o EXCEPT !.vals = [j \in DOMAIN o.vals |->
                                      IF j \in cells THEN VRef(Rank(R, o.vals[j].n))
                                      ELSE o.vals[j]]]>>
             \o Moved(h, R, i + 1)

Compact(h) == Moved(h, ReachFrom(h, {DefaultGlobals}), 1)

(* ------------------------------- run_tasks ----------------------------- *)

\* Lines 103-119: load the config, build env_vars, and with a parameter file
\* create global_vars and load param_list.
RunTasks(d, pf) ==
    /\ pc = "idle"
    /\ calls < MaxCalls
    /\ LET c == Alloc(heap, d)
           e == Alloc(c.h, D(environ.c \o <<E("CONFIG", S("<raw config>")),
                                           E("PARAMS", S(""))>>))
           g == Alloc(e.h, D(<<>>))
           pl == Alloc(g.h, IF pf.t = "list" THEN pf ELSE L(<<pf>>))
       IN  /\ config' = c.v
           /\ env_vars' = e.v
           /\ IF pf = NoFile
              THEN /\ heap' = e.h
                   /\ global_vars' = VNone
                   /\ param_list' = <<>>
                   /\ pc' = "single"
              ELSE /\ heap' = pl.h
                   /\ global_vars' = g.v
                   /\ param_list' = pl.h[pl.v.n].vals
                   /\ pc' = "sweep"
    /\ calls' = calls + 1
    /\ doc' = d
    /\ params' = pf
    /\ UNCHANGED <<utils, strict, environ, idx, passes, startG, log, merges, parsed,
                   graphs, produced, err, report>>

\* What a pass leaves: the heap, the log, and either the resolved config or
\* the exception of parse_config or check_all_resolved.
EndPassSwallowed(st, next) ==
    /\ heap' = st.h
    /\ log' = st.log
    /\ parsed' = (st.err = "")
    /\ err' = NoErr
    /\ pc' = next
    /\ IF st.err # ""
       THEN UNCHANGED <<graphs, produced>>
       ELSE /\ graphs' = Append(graphs, st.ret)
            /\ produced' = Append(produced, Deep(st.h, st.ret))

EndPass(st, next) ==
    /\ heap' = st.h
    /\ log' = st.log
    /\ parsed' = (st.err = "")
    /\ IF st.err # ""
       THEN /\ err' = [type |-> st.err, arg |-> st.earg]
            /\ pc' = "raised"
            /\ UNCHANGED <<graphs, produced>>
       ELSE /\ graphs' = Append(graphs, st.ret)
            /\ produced' = Append(produced, Deep(st.h, st.ret))
            /\ IF check_all_resolved(st.h, st.ret)
               THEN /\ err' = [type |-> "RuntimeError", arg |-> "Unresolved Nest module"]
                    /\ pc' = "raised"
               ELSE /\ err' = NoErr
                    /\ pc' = next

\* Lines 120-135: one round of "for idx, param in enumerate(param_list)".
SweepIteration ==
    /\ pc = "sweep"
    /\ idx < Len(param_list)
    /\ idx' = idx + 1
    /\ passes' = passes + 1
    /\ LET param == param_list[idx + 1]
           g == global_vars.n
       IN  IF IsDict(heap, param)
           THEN LET h1 == merge_dict(heap, g, param.n, TRUE)
                    h2 == [h1 EXCEPT ![env_vars.n] = SetKey(@, "PARAMS", VStr("<yaml of global_vars>"))]
                    c == deepcopy(h2, config)
                    st == parse_config(Pass0(c.h, g, env_vars.n, strict), c.v, 0)
                IN  /\ startG' = Deep(h2, global_vars)
                    /\ merges' = <<[src |-> Deep(heap, global_vars),
                                    diff |-> Deep(heap, param),
                                    out |-> Deep(h1, global_vars)]>> \o st.merges
                    /\ EndPass(st, "sweep")
           ELSE /\ err' = [type |-> "TypeError", arg |-> "param"]
                /\ pc' = "raised"
                /\ parsed' = FALSE
                /\ log' = <<>>
                /\ UNCHANGED <<heap, startG, merges, graphs, produced>>
    /\ UNCHANGED <<utils, strict, environ, calls, doc, params, config, env_vars,
                   global_vars, param_list, report>>

\* Lines 137-138: without a parameter file, parse_config(config,
\* env_vars=env_vars) and the check; global_vars is the default dict.
SinglePass ==
    /\ pc = "single"
    /\ passes' = passes + 1
    /\ LET st == parse_config(Pass0(heap, DefaultGlobals, env_vars.n, strict), config, 0)
       IN  /\ startG' = Deep(heap, VRef(DefaultGlobals))
           /\ merges' = st.merges
           /\ EndPass(st, "tail")
    /\ UNCHANGED <<utils, strict, environ, calls, doc, params, config, env_vars,
                   global_vars, param_list, idx, report>>

\* Lines 140-141: after the loop or the single pass, 'All finished'.
Finish ==
    /\ \/ pc = "sweep" /\ idx = Len(param_list)
       \/ pc = "tail"
    /\ pc' = "returned"
    /\ report' = "All finished"
    /\ UNCHANGED <<utils, heap, strict, environ, calls, doc, params, config, env_vars,
                   global_vars, param_list, idx, passes, startG, log, merges,
                   parsed, graphs, produced, err>>

\* Lines 143-144: except KeyboardInterrupt: logger.info(...).  No other
\* exception is caught, and nothing follows the handler: run_tasks returns.
CancelMsg == "Processing is canceled by user."

CancelPropagates ==
    /\ pc' = "raised"
    /\ err' = [type |-> "KeyboardInterrupt", arg |-> ""]
    /\ report' = report

Cancel ==
    /\ pc' = "cancelled"
    /\ err' = NoErr
    /\ report' = CancelMsg

\* What a pass that KeyboardInterrupt cut leaves.  When the pass itself had
\* returned (st.err = ""), resolved_config is bound and the interrupt is
\* raised inside check_all_resolved.
CancelPass(st) ==
    /\ st.err \in {"", "KeyboardInterrupt"}
    /\ heap' = st.h
    /\ log' = st.log
    /\ parsed' = (st.err = "")
    /\ IF st.err = ""
       THEN /\ graphs' = Append(graphs, st.ret)
            /\ produced' = Append(produced, Deep(st.h, st.ret))
       ELSE UNCHANGED <<graphs, produced>>
    /\ Cancel

\* KeyboardInterrupt raised outside a pass: at the end of loading, between
\* two iterations, or after the last pass before 'All finished' is logged.
InterruptBetween ==
    /\ pc \in {"sweep", "single", "tail"}
    /\ Cancel
    /\ UNCHANGED <<utils, heap, strict, environ, calls, doc, params, config, env_vars,
                   global_vars, param_list, idx, passes, startG, log, merges,
                   parsed, graphs, produced>>

\* KeyboardInterrupt raised inside sweep iteration idx + 1, once its pass has
\* made k steps: lines 122-132 up to the interrupt, then lines 143-144.
InterruptSweep ==
    /\ pc = "sweep"
    /\ idx < Len(param_list)
    /\ IsDict(heap, param_list[idx + 1])
    /\ idx' = idx + 1
    /\ passes' = passes + 1
    /\ LET param == param_list[idx + 1]
           g == global_vars.n
           h1 == merge_dict(heap, g, param.n, TRUE)
           h2 == [h1 EXCEPT ![env_vars.n] = SetKey(@, "PARAMS", VStr("<yaml of global_vars>"))]
           c == deepcopy(h2, config)
           full == parse_config(Pass0(c.h, g, env_vars.n, strict), c.v, 0)
       IN  \E k \in 0..Len(full.log) :
             LET st == parse_config([Pass0(c.h, g, env_vars.n, strict)
                                        EXCEPT !.fuel = k], c.v, 0)
             IN  /\ startG' = Deep(h2, global_vars)
                 /\ merges' = <<[src |-> Deep(heap, global_vars),
                                 diff |-> Deep(heap, param),
                                 out |-> Deep(h1, global_vars)]>> \o st.merges
                 /\ CancelPass(st)
    /\ UNCHANGED <<utils, strict, environ, calls, doc, params, config, env_vars,
                   global_vars, param_list>>

\* KeyboardInterrupt raised inside the single pass or its check: lines
\* 137-138 up to the interrupt, then lines 143-144.
InterruptSingle ==
    /\ pc = "single"
    /\ passes' = passes + 1
    /\ LET full == parse_config(Pass0(heap, DefaultGlobals, env_vars.n, strict), config, 0)
       IN  \E k \in 0..Len(full.log) :
             LET st == parse_config([Pass0(heap, DefaultGlobals, env_vars.n, strict)
                                        EXCEPT !.fuel = k], config, 0)
             IN  /\ startG' = Deep(heap, VRef(DefaultGlobals))
                 /\ merges' = st.merges
                 /\ CancelPass(st)
    /\ UNCHANGED <<utils, strict, environ, calls, doc, params, config, env_vars,
                   global_vars, param_list, idx>>

\* run_tasks has returned or raised and its caller goes on: the locals of
\* the call are gone, and so is every object only they reached.
Exit ==
    /\ pc \in {"returned", "raised"}
    /\ pc' = "idle"
    /\ heap' = Compact(heap)
    /\ doc' = TNone
    /\ params' = NoFile
    /\ config' = VNone
    /\ env_vars' = VNone
    /\ global_vars' = VNone
    /\ param_list' = <<>>
    /\ idx' = 0
    /\ passes' = 0
    /\ startG' = TNone
    /\ log' = <<>>
    /\ merges' = <<>>
    /\ parsed' = FALSE
    /\ graphs' = <<>>
    /\ produced' = <<>>
    /\ err' = NoErr
    /\ report' = ""
    /\ UNCHANGED <<utils, strict, environ, calls>>

Next ==
    \/ \E d \in {Docs[i] : i \in DOMAIN Docs}, pf \in ParamFiles \cup {NoFile} :
          RunTasks(d, pf)
    \/ SweepIteration
    \/ SinglePass
    \/ Finish
    \/ Exit

\* A process that makes run_tasks calls one after the other, none of them
\* cancelled.
Spec == Init /\ [][Next]_vars

\* One run_tasks call of a session that Ctrl-C may end: the command returns
\* to the shell when the call is over (cli.py line 119).
Stop ==
    /\ pc \in {"returned", "raised", "cancelled"}
    /\ pc' = "stopped"
    /\ UNCHANGED <<utils, heap, strict, environ, calls, doc, params, config, env_vars,
                   global_vars, param_list, idx, passes, startG, log, merges,
                   parsed, graphs, produced, err, report>>

CancelNext ==
    \/ \E d \in {Docs[i] : i \in DOMAIN Docs}, pf \in ParamFiles \cup {NoFile} :
          RunTasks(d, pf)
    \/ SweepIteration
    \/ SinglePass
    \/ Finish
    \/ InterruptBetween
    \/ InterruptSweep
    \/ InterruptSingle
    \/ Stop

CancelSpec == Init /\ [][CancelNext]_vars

(* ------------------------ direct calls of utils.py --------------------- *)

\* One call of is_annotation_matched or of merge_dict, on arguments of the
\* caller's choice; run_tasks is not called.
UtilInit ==
    /\ heap = <<[kind |-> "dict", keys |-> <<>>, vals |-> <<>>, name |-> ""]>>
    /\ strict = FALSE
    /\ environ = D(<<>>)
    /\ pc = "idle"
    /\ calls = 0
    /\ doc = TNone
    /\ params = NoFile
    /\ config = VNone
    /\ env_vars = VNone
    /\ global_vars = VNone
    /\ param_list = <<>>
    /\ idx = 0
    /\ passes = 0
    /\ startG = TNone
    /\ log = <<>>
    /\ merges = <<>>
    /\ parsed = FALSE
    /\ graphs = <<>>
    /\ produced = <<>>
    /\ err = NoErr
    /\ report = ""
    /\ matched = ""
    /\ merged = TNone
    /\ \/ /\ var \in Values
          /\ annotation \in Annotations
          /\ typing \in Typings
          /\ NoMerge
       \/ /\ merge_src \in Mappings
          /\ merge_diff \in Mappings
          /\ merge_union \in BOOLEAN
          /\ NoMatch

run == <<heap, strict, environ, pc, calls, doc, params, config, env_vars,
         global_vars, param_list, idx, passes, startG, log, merges, parsed,
         graphs, produced, err, report>>

\* is_annotation_matched(var, annotation)
Match ==
    /\ typing # ""
    /\ matched = ""
    /\ matched' = is_annotation_matched(var, annotation, typing)
    /\ UNCHANGED <<run, var, annotation, typing, merge_src, merge_diff,
                   merge_union, merged>>

\* merge_dict(src, diff, union)
Merge ==
    /\ merge_src # TNone
    /\ merged = TNone
    /\ LET s == Alloc(<<>>, merge_src)
           d == Alloc(s.h, merge_diff)
       IN  merged' = Deep(merge_dict(d.h, s.v.n, d.v.n, merge_union), s.v)
    /\ UNCHANGED <<run, var, annotation, typing, matched, merge_src,
                   merge_diff, merge_union>>

UtilNext == Match \/ Merge

UtilSpec == UtilInit /\ [][UtilNext]_vars

(* ----------------------------- observations ---------------------------- *)

TreeHas(tr, k) == \E i \in DOMAIN tr.c : tr.c[i].k = k
TreeGet(tr, k) == tr.c[CHOOSE i \in DOMAIN tr.c : tr.c[i].k = k].v
TreeKeys(tr) == {tr.c[i].k : i \in DOMAIN tr.c}

\* the key a recorded lookup was made for
KeyOf(ev) == SubSeq(ev.name, Len(VARIABLE_PREFIX) + 1, Len(ev.name))

Lookups == {i \in DOMAIN log : log[i].ev = "lookup"}
Declares == {i \in DOMAIN log : log[i].ev = "declare"}
Constructs == {i \in DOMAIN log : log[i].ev = "construct"}

\* the declarations of key k recorded before position i
DeclaredBefore(i, k) == {j \in Declares : j < i /\ TreeHas(log[j].tree, k)}

Latest(J) == CHOOSE j \in J : \A m \in J : m <= j

\* the parameter mappings of the current call, in order
ParamTrees == IF params.t = "list" THEN [i \in DOMAIN params.c |-> params.c[i].v]
              ELSE <<params>>

InSweep == params # NoFile /\ pc # "idle"
InSingle == params = NoFile /\ pc # "idle"

LastGraph == produced[Len(produced)]

(* -------------------------------- claims -------------------------------- *)

\* C1: in a sweep no mutable state is shared between iterations: the value
\* of the resolved graph an iteration produced stays what it was when the
\* iteration produced it, whatever later iterations resolve.
SweepIsolation ==
    InSweep => \A i \in DOMAIN graphs : Deep(heap, graphs[i]) = produced[i]

\* C2 as stated: in a sweep whose parameter sets all bind a variable, every
\* site of iteration i that was substituted for the variable holds the value
\* the i-th parameter set binds.
SweepBindsIthValue ==
    InSweep =>
        \A k \in Lookups :
            (\A i \in DOMAIN ParamTrees : TreeHas(ParamTrees[i], KeyOf(log[k])))
                => log[k].tree = TreeGet(ParamTrees[idx], KeyOf(log[k]))

\* C2 amended: every site iteration i substitutes (a mapping value, an
\* element of the document when it is a sequence, an element of a sequence
\* that is a mapping value) holds the value the i-th parameter set binds when
\* no _var mapping of the document declared the key earlier in the pass and
\* the bound value is not a mapping; a bound mapping is merged into the
\* mapping the earlier sets left, so the site then holds a mapping with at
\* least the keys the i-th set binds.
SweepBindsIthValueUndeclared ==
    InSweep =>
        \A k \in Lookups :
            ((\A i \in DOMAIN ParamTrees : TreeHas(ParamTrees[i], KeyOf(log[k])))
                 /\ DeclaredBefore(k, KeyOf(log[k])) = {})
                => LET bound == TreeGet(ParamTrees[idx], KeyOf(log[k]))
                   IN  IF bound.t = "dict"
                       THEN /\ log[k].tree.t = "dict"
                            /\ TreeKeys(bound) \subseteq TreeKeys(log[k].tree)
                       ELSE log[k].tree = bound

\* C2 witness: the second iteration of a sweep over two sets binding lr has
\* put the second value at a site, after the first put the first value.
SweepSecondValueSeen ==
    /\ InSweep
    /\ idx = 2
    /\ parsed
    /\ Len(ParamTrees) = 2
    /\ Len(produced) = 2
    /\ TreeHas(ParamTrees[1], "lr")
    /\ TreeHas(ParamTrees[2], "lr")
    /\ produced[1].t = "dict"
    /\ TreeGet(ParamTrees[1], "lr") # TreeGet(ParamTrees[2], "lr")
    /\ \E k \in Lookups : /\ KeyOf(log[k]) = "lr"
                          /\ log[k].tree = TreeGet(ParamTrees[2], "lr")
    /\ TreeHas(produced[1], "x")
    /\ TreeGet(produced[1], "x") = TreeGet(ParamTrees[1], "lr")

\* C3: a key present in both tiers resolves to the global tier's value at
\* every site; the environment's value is used only when the global tier
\* lacks the key.
GlobalPrecedence ==
    \A k \in Lookups :
        /\ log[k].gHas => log[k].val = log[k].gVal
        /\ (~log[k].gHas /\ log[k].eHas) => log[k].val = log[k].eVal

\* C3 witness: a key both tiers hold, with different values, was looked up
\* at an element of a sequence held by a mapping and at a mapping value.
BothTiersLookedUp ==
    \A site \in {"mapping value", "element of a mapping's sequence"} :
        \E k \in Lookups : /\ log[k].site = site
                           /\ log[k].gHas /\ log[k].eHas
                           /\ log[k].gVal # log[k].eVal
                           /\ log[k].val = log[k].gVal

\* C4: a reference whose key neither tier holds when it is processed ends the
\* pass with the variable-resolution error naming the reference, and the pass
\* returns no resolved graph.
MissingVariableRaises ==
    \A k \in Lookups :
        (~log[k].gHas /\ ~log[k].eHas)
            => /\ pc = "raised"
               /\ err = [type |-> "TypeError", arg |-> log[k].name]
               /\ k = Len(log)
               /\ ~parsed
               /\ Len(graphs) = passes - 1

\* C4 witness: {"x": "@missing"} was resolved with the key in neither tier.
MissingLookedUp ==
    /\ doc = D(<<E("x", S("@missing"))>>)
    /\ \E k \in Lookups : /\ log[k].name = "@missing"
                          /\ ~log[k].gHas /\ ~log[k].eHas
    /\ err.arg = "@missing"

\* a Deferred Module Instance occurs in the tree, at the top or at any depth
\* inside nested mappings and sequences
RECURSIVE OccursDeferred(_)
OccursDeferred(tr) ==
    \/ tr.t = "NestModule"
    \/ /\ tr.t \in {"dict", "list"}
       /\ \E i \in DOMAIN tr.c : OccursDeferred(tr.c[i].v)

\* C5: after a pass whose parse_config returned, run_tasks raises the
\* unresolved-module error if and only if a Deferred Module Instance occurs in
\* the resolved graph, at the top or at any depth inside nested mappings and
\* sequences; when none occurs run_tasks goes on without an error and the
\* resolved graph has the value parse_config returned.
CompletionCheck ==
    parsed =>
        /\ (pc = "raised" /\ err.type = "RuntimeError") <=> OccursDeferred(LastGraph)
        /\ ~OccursDeferred(LastGraph) =>
               /\ err = NoErr
               /\ pc \in {"sweep", "tail", "returned"}
               /\ Deep(heap, graphs[Len(graphs)]) = LastGraph

\* C5 witness: the check failed on a Deferred Module Instance that is not the
\* top of the resolved graph but sits below a sequence and a mapping.
DeferredFoundBelow ==
    /\ parsed
    /\ pc = "raised"
    /\ err.type = "RuntimeError"
    /\ LastGraph.t = "dict"
    /\ \E i \in DOMAIN LastGraph.c :
          /\ LastGraph.c[i].v.t = "list"
          /\ OccursDeferred(LastGraph.c[i].v)

\* a Deferred Module Instance occurs anywhere in the tree, the arguments of
\* modules included
RECURSIVE HoldsDeferred(_)
HoldsDeferred(tr) ==
    \/ tr.t = "NestModule"
    \/ \E i \in DOMAIN tr.c : HoldsDeferred(tr.c[i].v)

\* the tree is a Module Reference Node: a mapping with a module identifier
\* under _name
IsModuleNode(tr) ==
    /\ tr.t = "dict"
    /\ TreeHas(tr, "_name")
    /\ TreeGet(tr, "_name").t = "str"
    /\ TreeGet(tr, "_name").s # ""

\* the number of Module Reference Nodes of a document
RECURSIVE ModuleNodes(_), ModuleNodesFrom(_, _)
ModuleNodesFrom(c, i) ==
    IF i > Len(c) THEN 0 ELSE ModuleNodes(c[i].v) + ModuleNodesFrom(c, i + 1)

ModuleNodes(tr) ==
    (IF IsModuleNode(tr) THEN 1 ELSE 0) + ModuleNodesFrom(tr.c, 1)

\* the number of Module Reference Nodes of a document that are the document
\* itself, a mapping value, an element of the document when it is a sequence,
\* or an element of a sequence that is a mapping value, at any depth of such
\* steps: not those below a sequence that is an element of a sequence
RECURSIVE WalkedModuleNodes(_), WalkedValues(_, _), WalkedElements(_, _)
WalkedElements(c, i) ==
    IF i > Len(c) THEN 0
    ELSE (IF c[i].v.t = "dict" THEN WalkedModuleNodes(c[i].v) ELSE 0)
         + WalkedElements(c, i + 1)

WalkedValues(c, i) ==
    IF i > Len(c) THEN 0
    ELSE (CASE c[i].v.t = "dict" -> WalkedModuleNodes(c[i].v)
            [] c[i].v.t = "list" -> WalkedElements(c[i].v.c, 1)
            [] OTHER -> 0)
         + WalkedValues(c, i + 1)

WalkedModuleNodes(tr) ==
    CASE tr.t = "dict" -> (IF IsModuleNode(tr) THEN 1 ELSE 0) + WalkedValues(tr.c, 1)
      [] tr.t = "list" -> WalkedElements(tr.c, 1)
      [] OTHER -> 0

\* what the constructions of the latest pass have in common in either mode
ConstructedAs(kind, delay) ==
    \A k \in Constructs :
        /\ log[k].delay = delay
        /\ log[k].val.t = "ref"
        /\ heap[log[k].val.n].kind = kind
        /\ heap[log[k].val.n].name = log[k].name
        /\ log[k].tree.t = "dict"
        /\ ~TreeHas(log[k].tree, "_name")

\* C6: under strict mode the constructor of every Module Reference Node of
\* the document is invoked at once, without delay_resolve, and the returned
\* graph holds no Deferred Module Instance; under non-strict mode every
\* Module Reference Node is constructed with delay_resolve and a document
\* that is a Module Reference Node is returned as a Deferred Module Instance.
EveryModuleNodeConstructed ==
    /\ strict => ConstructedAs("instance", FALSE)
    /\ ~strict => ConstructedAs("NestModule", TRUE)
    /\ parsed =>
          /\ Cardinality(Constructs) = ModuleNodes(doc)
          /\ strict => ~HoldsDeferred(LastGraph)
          /\ (~strict /\ IsModuleNode(doc)) => LastGraph.t = "NestModule"

\* C7: substitution is final.  Nothing the pass does after a lookup happens
\* inside the value that was substituted (no walk into it, no lookup in it,
\* no construction from it, whether it is a mapping, a sequence or a string
\* with the variable prefix); no slot is looked up twice; every construction
\* is of a Module Reference Node of the document, each at most once, so a
\* module declared in a _var mapping is constructed once however many sites
\* reference it and a substituted mapping with _name is never constructed.
SubstitutionIsFinal ==
    /\ \A k \in Lookups : \A m \in DOMAIN log :
          (m > k /\ log[m].ev \in {"visit", "lookup", "construct"})
              => log[m].node \notin log[k].reach
    /\ \A k \in Lookups : \A m \in Lookups :
          (log[k].node = log[m].node /\ log[k].pos = log[m].pos) => k = m
    /\ \A k \in Lookups :
          (log[k].gHas \/ log[k].eHas)
              => log[k].val = IF log[k].gHas THEN log[k].gVal ELSE log[k].eVal
    /\ \A k \in Constructs : \A m \in Constructs :
          log[k].node = log[m].node => k = m
    /\ parsed => Cardinality(Constructs) = WalkedModuleNodes(doc)

\* C7 witness: a module declared in a _var mapping was constructed, two
\* later sites were given that same module object, and the pass made one
\* construction in all.
DeclaredModuleSharedOnce ==
    /\ parsed
    /\ Cardinality(Constructs) = 1
    /\ \E c \in Constructs : \E k \in Lookups : \E m \in Lookups :
          /\ c < k /\ k < m
          /\ log[k].val = log[c].val
          /\ log[m].val = log[c].val
          /\ log[k].site # log[m].site

\* C8 as stated: after a _var mapping has been resolved, every later
\* reference to a key it declares resolves to the value it declares; a
\* reference made before any declaration of its key finds the global tier
\* as the pass found it.
DeclaredValueSeenLater ==
    /\ \A d \in Declares : \A m \in Lookups :
          (m > d /\ TreeHas(log[d].tree, KeyOf(log[m])))
              => /\ log[m].gHas
                 /\ log[m].tree = TreeGet(log[d].tree, KeyOf(log[m]))
    /\ \A m \in Lookups :
          DeclaredBefore(m, KeyOf(log[m])) = {}
              => log[m].gHas = TreeHas(startG, KeyOf(log[m]))

\* C8 amended: after a _var mapping has been resolved, each key it declares
\* is in the global tier for the rest of the pass, and a later reference
\* resolves to what the most recent declaration of the key before it
\* declared: that value itself when it is not a mapping, and a mapping with
\* at least the declared keys when it is one (a declared mapping is merged
\* into the mapping the global tier holds).  A reference made before any
\* declaration of its key finds the global tier as the pass found it.
LatestDeclarationSeenLater ==
    /\ \A d \in Declares : \A m \in Lookups :
          (m > d /\ TreeHas(log[d].tree, KeyOf(log[m])))
              => /\ log[m].gHas
                 /\ log[m].val = log[m].gVal
                 /\ LET j == Latest(DeclaredBefore(m, KeyOf(log[m])))
                        declared == TreeGet(log[j].tree, KeyOf(log[m]))
                    IN  IF declared.t = "dict"
                        THEN /\ log[m].tree.t = "dict"
                             /\ TreeKeys(declared) \subseteq TreeKeys(log[m].tree)
                        ELSE log[m].tree = declared
    /\ \A m \in Lookups :
          DeclaredBefore(m, KeyOf(log[m])) = {}
              => /\ log[m].gHas = TreeHas(startG, KeyOf(log[m]))
                 /\ (log[m].gHas /\ TreeGet(startG, KeyOf(log[m])).t # "dict")
                        => log[m].tree = TreeGet(startG, KeyOf(log[m]))

\* C8 witness: a key was declared twice with different values and a
\* reference after both resolved to the second, a reference between the two
\* to the first.
RedeclaredKeySeen ==
    \E d1 \in Declares : \E d2 \in Declares : \E k \in Lookups : \E m \in Lookups :
        /\ d1 < k /\ k < d2 /\ d2 < m
        /\ KeyOf(log[k]) = KeyOf(log[m])
        /\ TreeHas(log[d1].tree, KeyOf(log[k]))
        /\ TreeHas(log[d2].tree, KeyOf(log[k]))
        /\ TreeGet(log[d1].tree, KeyOf(log[k])) # TreeGet(log[d2].tree, KeyOf(log[k]))
        /\ log[k].tree = TreeGet(log[d1].tree, KeyOf(log[k]))
        /\ log[m].tree = TreeGet(log[d2].tree, KeyOf(log[m]))

\* out is the union-merge of the mappings s (src) and d (diff): the keys of
\* both; a key of one side only with that side's value; a key of both sides
\* merged recursively when both values are mappings; otherwise, when keep,
\* src's value where exactly one of the two is a mapping, and when not keep,
\* diff's value.
RECURSIVE UnionMerged(_, _, _, _)
UnionMerged(s, d, out, keep) ==
    /\ out.t = "dict"
    /\ TreeKeys(out) = TreeKeys(s) \cup TreeKeys(d)
    /\ \A k \in TreeKeys(s) \ TreeKeys(d) : TreeGet(out, k) = TreeGet(s, k)
    /\ \A k \in TreeKeys(d) \ TreeKeys(s) : TreeGet(out, k) = TreeGet(d, k)
    /\ \A k \in TreeKeys(s) \cap TreeKeys(d) :
          LET sv == TreeGet(s, k)
              dv == TreeGet(d, k)
          IN  IF sv.t = "dict" /\ dv.t = "dict"
              THEN UnionMerged(sv, dv, TreeGet(out, k), keep)
              ELSE IF sv.t = "dict" \/ dv.t = "dict"
                   THEN TreeGet(out, k) = IF keep THEN sv ELSE dv
                   ELSE keep \/ TreeGet(out, k) = dv

\* C9 as stated: every merge_dict(src, diff, union=True) run_tasks and
\* parse_config make adds the keys only diff has at every depth, merges
\* recursively where both sides hold mappings, and keeps src's value where
\* one side holds a mapping and the other does not.
UnionMergeKeepsSrc ==
    \A i \in DOMAIN merges :
        UnionMerged(merges[i].src, merges[i].diff, merges[i].out, TRUE)

\* C9 amended: the same, except that wherever the two sides do not both hold
\* mappings (one a mapping and the other not, or neither a mapping) the
\* result holds diff's value.
UnionMergeTakesDiff ==
    \A i \in DOMAIN merges :
        UnionMerged(merges[i].src, merges[i].diff, merges[i].out, FALSE)

\* C9 witness: a merge met a key under which one side held a mapping and the
\* other a number, and the result holds what diff held.
MergedAcrossKinds ==
    \E i \in DOMAIN merges :
        \E k \in TreeKeys(merges[i].src) \cap TreeKeys(merges[i].diff) :
            /\ (TreeGet(merges[i].src, k).t = "dict")
                   # (TreeGet(merges[i].diff, k).t = "dict")
            /\ TreeGet(merges[i].out, k) = TreeGet(merges[i].diff, k)
            /\ TreeGet(merges[i].out, k) # TreeGet(merges[i].src, k)

\* C10: every run_tasks call without a parameter file makes one resolution
\* pass, and the pass starts with an empty global tier, whatever earlier
\* calls of the process declared.
SinglePassStartsEmpty ==
    (InSingle /\ pc # "single") => (passes = 1 /\ startG = D(<<>>))

\* C11: a KeyboardInterrupt raised while the pass of a sweep iteration is in
\* flight does not interrupt that pass: when run_tasks was cancelled during a
\* sweep, every pass it started has run to its end and returned its resolved
\* graph, so that the sweep stopped at an iteration boundary.
CancelAtIterationBoundary ==
    (pc = "cancelled" /\ InSweep) => Len(graphs) = passes

\* C12: wherever the KeyboardInterrupt is raised (at the end of loading,
\* inside the pass of any iteration, inside the completion check, between two
\* iterations), run_tasks logs the cancellation message and returns normally:
\* no KeyboardInterrupt reaches the caller, and after the cancellation no
\* iteration is started, no pass is made and 'All finished' is not logged.
CancelReturnsNormally ==
    /\ [](err.type # "KeyboardInterrupt")
    /\ [](pc = "cancelled" => (report = CancelMsg /\ err = NoErr))
    /\ [][pc = "cancelled" =>
              (pc' = "stopped" /\ UNCHANGED <<idx, passes, graphs, report, err>>)]_vars

\* C12 witness: the second iteration of a sweep was cancelled inside its
\* pass, after some steps of the pass and after the first iteration had
\* completed.
SecondIterationCancelled ==
    /\ pc = "cancelled"
    /\ InSweep
    /\ idx = 2
    /\ Len(graphs) = 1
    /\ ~parsed
    /\ Len(log) > 1

\* C13: when an iteration fails (a variable that cannot be resolved, an
\* unknown module identifier, a parameter entry that is not a mapping, a
\* Deferred Module Instance left in the graph) the error reaches the caller
\* of run_tasks: a pass that was started and returned no graph leaves
\* run_tasks raised, a raised run_tasks carries the error and has logged
\* nothing, nothing of the call follows the error, and the iteration index
\* only ever grows by one, from a sweep that has not failed.
FailureSurfaces ==
    /\ []((pc # "idle" /\ passes > Len(graphs)) =>
              (pc = "raised" /\ passes = Len(graphs) + 1
                             /\ err.type \in {"TypeError", "ModuleNotFound"}))
    /\ [](pc = "raised" => (err # NoErr /\ report = ""))
    /\ [][pc = "raised" => pc' = "idle"]_vars
    /\ [][idx' # idx => \/ (pc = "sweep" /\ idx' = idx + 1)
                        \/ (pc' = "idle" /\ idx' = 0)]_vars

\* C13 witness: the first of two iterations failed, and the second was
\* never started.
FirstIterationFailed ==
    /\ pc = "raised"
    /\ InSweep
    /\ Len(param_list) = 2
    /\ idx = 1
    /\ passes = 1
    /\ graphs = <<>>
    /\ err.type = "TypeError"

\* C18: the arguments a module constructor is called with contain neither
\* _name nor _var.
ArgumentsWithoutReservedKeys ==
    \A k \in Constructs :
        /\ ~TreeHas(log[k].tree, "_name")
        /\ ~TreeHas(log[k].tree, "_var")

\* a Variable Reference of the document orig stands unchanged at the same
\* position of the tree res
RECURSIVE ReferenceSurvives(_, _)
ReferenceSurvives(orig, res) ==
    \/ is_variable(orig) /\ res = orig
    \/ /\ orig.t = "list"
       /\ res.t = "list"
       /\ \E i \in DOMAIN orig.c \cap DOMAIN res.c :
              ReferenceSurvives(orig.c[i].v, res.c[i].v)
    \/ /\ orig.t = "dict"
       /\ res.t \in {"dict", "NestModule", "instance"}
       /\ \E k \in TreeKeys(orig) \cap TreeKeys(res) :
              ReferenceSurvives(TreeGet(orig, k), TreeGet(res, k))

\* C19: after a pass whose parse_config returned, no Variable Reference of
\* the original document stands in the resolved graph, whatever its position:
\* top-level, value of a mapping, element of a sequence, or inside sequences
\* nested directly in sequences.
NoReferenceSurvives ==
    parsed => ~ReferenceSurvives(doc, LastGraph)

\* the annotation is built from the constructs the matcher is documented to
\* support: Any, None, a class, and List, Set, Tuple, Dict, Union, Callable,
\* Iterable, Iterator, subscripted by such annotations or not at all
RECURSIVE Supported(_)
Supported(a) ==
    /\ a.k \in {"Any", "None", "class", "List", "Set", "Tuple", "Dict", "Union",
                "Callable", "Iterable", "Iterator"}
    /\ \A i \in DOMAIN a.a : Supported(a.a[i])

\* C14: for every value and every annotation built from Any, None, a class,
\* List, Set, Tuple, Dict, Union, Callable, Iterable and Iterator, nested or
\* not, is_annotation_matched returns True or False and raises nothing; for
\* the annotation None it returns True when the value is None and False when
\* it is not.
MatcherNeverRaises ==
    (matched # "" /\ Supported(annotation)) =>
        /\ matched \in {"True", "False"}
        /\ annotation = NoneAnno => matched = Bool(var = PyNone)

\* the annotation is built from classes other than NoneType and from
\* subscripted List, Set, Tuple, Dict and Union only
RECURSIVE Structural(_)
Structural(a) ==
    /\ \/ a.k = "class" /\ a.ty \notin {"NoneType", "_empty"}
       \/ a.k \in {"List", "Set", "Tuple", "Dict", "Union"} /\ ~a.bare
    /\ \A i \in DOMAIN a.a : Structural(a.a[i])

\* the structural rule: a class matches a value of that class or of a
\* subclass; List and Set match a container of that kind whose members all
\* match; Tuple matches a tuple of that length, position by position; Dict
\* matches a mapping whose keys and values all match; Union matches what
\* one alternative matches
RECURSIVE Conforms(_, _)
Conforms(v, a) ==
    CASE a.k = "class" -> issubclass(v.t, a.ty)
      [] a.k = "List" -> /\ v.t = "list"
                         /\ \A i \in DOMAIN v.items : Conforms(v.items[i], a.a[1])
      [] a.k = "Set" -> /\ v.t = "set"
                        /\ \A i \in DOMAIN v.items : Conforms(v.items[i], a.a[1])
      [] a.k = "Tuple" -> /\ v.t = "tuple"
                          /\ Len(v.items) = Len(a.a)
                          /\ \A i \in DOMAIN v.items : Conforms(v.items[i], a.a[i])
      [] a.k = "Dict" -> /\ v.t = "dict"
                         /\ \A i \in DOMAIN v.items :
                                /\ Conforms(v.items[i][1], a.a[1])
                                /\ Conforms(v.items[i][2], a.a[2])
      [] a.k = "Union" -> \E i \in DOMAIN a.a : Conforms(v, a.a[i])
      [] OTHER -> FALSE

\* C15: for annotations built from classes and subscripted List, Set, Tuple,
\* Dict and Union, is_annotation_matched returns what the structural rule
\* says: List(e) and Set(e) match a container of that kind whose members all
\* match e (one without members matches), Tuple(e1..en) a tuple of length n
\* matching position by position, Dict(k, v) a mapping whose every key
\* matches k and value matches v (an empty one matches), Union(a1..an) what
\* at least one alternative matches.
StructuralAgreement ==
    (matched # "" /\ Structural(annotation)) =>
        matched = Bool(Conforms(var, annotation))

\* C15 witness: a list of two members of different types matched a List of
\* a Union.
ListOfUnionMatched ==
    /\ matched = "True"
    /\ annotation = Generic("List", <<Generic("Union", <<Class("int"), Class("str")>>)>>)
    /\ Len(var.items) = 2
    /\ var.items[1].t # var.items[2].t

\* the effective parameter list of a callable: the declared parameters, for
\* a NestModule without those already bound and those with a default
EffectiveParams(v) ==
    LET Open(p) == ~(v.t = "NestModule" /\ (p.name \in v.bound \/ p.default))
    IN  SelectSeq(v.sig.params, Open)

\* the parameter part of a Callable annotation matches the value
ParamsAgree(v, a) ==
    /\ callable(v)
    /\ Len(EffectiveParams(v)) = Len(a.a) - 1
    /\ \A i \in DOMAIN EffectiveParams(v) : EffectiveParams(v)[i].annotation = a.a[i]

\* C16: against a subscripted Callable annotation, a value that matches is a
\* callable whose effective parameter list (for a NestModule the declared
\* parameters without the bound ones and those with defaults, for any other
\* callable all declared parameters) has exactly as many entries as the
\* annotation has parameters, each declared with the annotation's type at
\* that position; such a value matches when the annotation returns Any; a
\* value that is not callable does not match.
CallableParameters ==
    (matched # "" /\ annotation.k = "Callable" /\ ~annotation.bare) =>
        /\ matched \in {"True", "False"}
        /\ matched = "True" => ParamsAgree(var, annotation)
        /\ (ParamsAgree(var, annotation) /\ annotation.a[Len(annotation.a)] = AnyType)
               => matched = "True"
        /\ ~callable(var) => matched = "False"

\* C16 witness: a NestModule of two declared parameters, one of them bound,
\* matched a Callable annotation of one parameter.
PartlyBoundModuleMatched ==
    /\ matched = "True"
    /\ annotation.k = "Callable"
    /\ Len(annotation.a) = 2
    /\ var.t = "NestModule"
    /\ Len(var.sig.params) = 2
    /\ Cardinality(var.bound) = 1
    /\ ~var.sig.params[2].default

\* the declared return annotation is the type the Callable annotation returns
\* (None written in a signature and None written in Callable are the same)
SameReturn(declared, ret) ==
    \/ declared = ret
    \/ declared = NoneAnno /\ ret = Class("NoneType")

\* C17: a value whose parameter part matches a subscripted Callable
\* annotation matches if and only if the annotation returns Any, or returns
\* the declared return type of the callable, or returns None while the
\* callable declares no return type.
ReturnRule ==
    (matched # "" /\ annotation.k = "Callable" /\ ~annotation.bare
                  /\ ParamsAgree(var, annotation)) =>
        LET ret == annotation.a[Len(annotation.a)]
        IN  (matched = "True") <=>
                \/ ret = AnyType
                \/ SameReturn(var.sig.ret, ret)
                \/ (var.sig.ret = Empty /\ ret = Class("NoneType"))

\* C17 amended: a value whose parameter part matches a subscripted Callable
\* annotation matches if and only if the annotation returns Any or object,
\* or returns the declared return type of the callable; a callable that
\* declares no return type matches only an annotation returning Any or
\* object.
ReturnRuleWithObject ==
    (matched # "" /\ annotation.k = "Callable" /\ ~annotation.bare
                  /\ ParamsAgree(var, annotation)) =>
        LET ret == annotation.a[Len(annotation.a)]
        IN  (matched = "True") <=>
                \/ ret \in {AnyType, Class("object")}
                \/ SameReturn(var.sig.ret, ret)

\* C17 witness: a callable declared to return int matched a Callable
\* annotation returning object.
ObjectReturnMatched ==
    /\ matched = "True"
    /\ annotation.k = "Callable"
    /\ ~annotation.bare
    /\ annotation.a[Len(annotation.a)] = Class("object")
    /\ var.sig.ret = Class("int")

\* merging d into s gave out without adding a key at any depth: out has the
\* keys of s, holds what s held under the keys d does not have, and under a
\* key where both hold mappings a mapping of which the same is true
RECURSIVE KeysKept(_, _, _)
KeysKept(s, d, out) ==
    /\ TreeKeys(out) = TreeKeys(s)
    /\ \A k \in TreeKeys(s) :
           IF ~TreeHas(d, k) THEN TreeGet(out, k) = TreeGet(s, k)
           ELSE (TreeGet(s, k).t = "dict" /\ TreeGet(d, k).t = "dict") =>
                    /\ TreeGet(out, k).t = "dict"
                    /\ KeysKept(TreeGet(s, k), TreeGet(d, k), TreeGet(out, k))

\* C20: merge_dict(src, diff) with union false adds no key to src nor to any
\* mapping nested in src: at every depth the keys of the result are the keys
\* src had, and what src held under a key diff does not have is unchanged.
MergeAddsNoKey ==
    (merged # TNone /\ ~merge_union) => KeysKept(merge_src, merge_diff, merged)

====
